---------------------------- MODULE Spec2Model ----------------------------
(***************************************************************************)
(* Model of the audio utilities of the Live-analyst repository             *)
(* (utils/audioUtils: base64ToUint8Array, arrayBufferToBase64,             *)
(* downsampleBuffer, createPcmBlob, decodeAudioData).                      *)
(*                                                                         *)
(* Sample values are exact rationals [n |-> numerator, d |-> denominator]  *)
(* in lowest terms, so the averaging and the scaling of the code are       *)
(* computed without the rounding of IEEE arithmetic.  Integers stored in   *)
(* an Int16Array keep their 16-bit width (ToInt16).                        *)
(***************************************************************************)
EXTENDS Integers, Sequences, FiniteSets, TLC

\* ------------------------------------------------------------------ bounds
\* Longest block whose samples are chosen freely.
MaxLen == 4
\* Longest block of equal samples (the windows of a long block).
MaxLong == 12
\* Samples are the multiples of 1/SampleDen between -1.5 and 1.5.
SampleDen == 10
\* Longest byte sequence of the base64 round trip.
MaxBytes == 4
\* Most 16-bit integers in the bytes handed to decodeAudioData.
MaxSamples == 6
\* Most channels asked of decodeAudioData.
MaxChannels == 3
\* Most calls of startSession that find a key, in one life of the component.
MaxStarts == 1
\* Most blocks the capture callback receives.
MaxBlocks == 2
\* Most server messages onmessage receives.
MaxMessages == 1

\* ------------------------------------------------------ program constants
\* const TARGET_RATE = 16000
TARGET_RATE == 16000
\* 0x8000, the scale of the negative branch and the decoder's divisor
NegScale == 32768
\* 0x7FFF, the scale of the non-negative branch
PosScale == 32767
\* 32768.0, the divisor of decodeAudioData
DecodeScale == 32768

\* Sample rates an AudioContext reports (ctx.sampleRate): the device's.
InputRates ==
  {8000, 11025, 12000, 16000, 22050, 24000, 32000, 44100, 48000, 96000}

\* --------------------------------------------------------------- numbers
Abs(x) == IF x < 0 THEN -x ELSE x

RECURSIVE Gcd(_, _)
Gcd(a, b) == IF b = 0 THEN a ELSE Gcd(b, a % b)

\* The rational n/d (d > 0) in lowest terms.
Rat(n, d) ==
  LET g == Gcd(Abs(n), d)
  IN  [n |-> n \div g, d |-> d \div g]

Zero == Rat(0, 1)

\* Math.floor(n/d) for d > 0
MathFloorDiv(n, d) == n \div d

\* Math.round(n/d) for d > 0: the nearest integer, halves towards +infinity.
MathRoundDiv(n, d) == (2 * n + d) \div (2 * d)

\* Truncation towards zero of n/d (d > 0): the float-to-integer conversion
\* of a typed-array store.
TruncDiv(n, d) == IF n >= 0 THEN n \div d ELSE -((-n) \div d)

\* The Int16Array store of an integer x: modulo 2^16, read back as signed.
ToInt16(x) == ((x + 32768) % 65536) - 32768


\* ------------------------------------------------------------- rationals
RatAdd(a, b) == Rat(a.n * b.d + b.n * a.d, a.d * b.d)

\* a / k for an integer k > 0
RatDivInt(a, k) == Rat(a.n, a.d * k)

RatLess(a, b) == a.n * b.d < b.n * a.d

\* Math.min(a, b) and Math.max(a, b)
MathMin(a, b) == IF RatLess(b, a) THEN b ELSE a

MathMax(a, b) == IF RatLess(a, b) THEN b ELSE a

One == Rat(1, 1)

MinusOne == Rat(-1, 1)

\* --------------------------------------------------------------- base64
\* A binary string is the sequence of its char codes; a base64 text is the
\* sequence of its symbols' indices in the 64-symbol alphabet, Pad is '='.
Pad == 64

\* String.fromCharCode(c)
FromCharCode(c) == c % 65536

\* The store of a number into a Uint8Array
ToUint8(c) == c % 256

\* btoa(binary): three bytes become four symbols, the last group is padded.
RECURSIVE Btoa(_)
Btoa(s) ==
  IF Len(s) = 0 THEN << >>
  ELSE IF Len(s) = 1 THEN << s[1] \div 4, (s[1] % 4) * 16, Pad, Pad >>
  ELSE IF Len(s) = 2
    THEN << s[1] \div 4, (s[1] % 4) * 16 + s[2] \div 16, (s[2] % 16) * 4, Pad >>
  ELSE << s[1] \div 4, (s[1] % 4) * 16 + s[2] \div 16,
          (s[2] % 16) * 4 + s[3] \div 64, s[3] % 64 >>
       \o Btoa(SubSeq(s, 4, Len(s)))

\* The text without its trailing padding (atob strips it before decoding).
StripPad(t) ==
  IF Len(t) % 4 = 0 /\ Len(t) >= 2 /\ t[Len(t)] = Pad
  THEN IF t[Len(t) - 1] = Pad THEN SubSeq(t, 1, Len(t) - 2)
                              ELSE SubSeq(t, 1, Len(t) - 1)
  ELSE t

\* The bytes of a text of symbols (no padding): four symbols give three
\* bytes, a tail of two gives one byte and a tail of three gives two.
RECURSIVE DecodeSymbols(_)
DecodeSymbols(t) ==
  IF Len(t) <= 1 THEN << >>
  ELSE IF Len(t) = 2 THEN << t[1] * 4 + t[2] \div 16 >>
  ELSE IF Len(t) = 3
    THEN << t[1] * 4 + t[2] \div 16, (t[2] % 16) * 16 + t[3] \div 4 >>
  ELSE << t[1] * 4 + t[2] \div 16, (t[2] % 16) * 16 + t[3] \div 4,
          (t[3] % 4) * 64 + t[4] >>
       \o DecodeSymbols(SubSeq(t, 5, Len(t)))

\* atob(base64), for a text btoa can produce.
Atob(t) == DecodeSymbols(StripPad(t))

\* base64ToUint8Array(base64)
Base64ToUint8Array(base64) ==
  LET binaryString == Atob(base64)
      len == Len(binaryString)
  IN  [i \in 1..len |-> ToUint8(binaryString[i])]

\* arrayBufferToBase64 with the loop bound i < len - 1: the last byte is lost.
ArrayBufferToBase64_ShortLoop(bytes) ==
  LET n == IF Len(bytes) = 0 THEN 0 ELSE Len(bytes) - 1
      binary == [i \in 1..n |-> FromCharCode(bytes[i])]
  IN  Btoa(binary)

\* arrayBufferToBase64(buffer)
ArrayBufferToBase64(bytes) ==
  LET binary == [i \in 1..Len(bytes) |-> FromCharCode(bytes[i])]
  IN  Btoa(binary)

\* ------------------------------------------------------- 16-bit integers
\* The bytes of the integers with the high byte first.
RECURSIVE Int16Bytes_BigEndian(_)
Int16Bytes_BigEndian(ints) ==
  IF Len(ints) = 0 THEN << >>
  ELSE LET u == ints[1] % 65536
       IN  << u \div 256, u % 256 >> \o Int16Bytes_BigEndian(Tail(ints))

\* The bytes of an Int16Array's buffer: two per integer, low byte first.
RECURSIVE Int16Bytes(_)
Int16Bytes(ints) ==
  IF Len(ints) = 0 THEN << >>
  ELSE LET u == ints[1] % 65536
       IN  << u % 256, u \div 256 >> \o Int16Bytes(Tail(ints))

\* new Int16Array(data.buffer): the integers of a byte sequence of even
\* length, low byte first, read as signed.
Int16Array(bytes) ==
  [i \in 1..(Len(bytes) \div 2) |->
     ToInt16(bytes[2 * i - 1] + 256 * bytes[2 * i])]

\* ---------------------------------------------------------- quantization
\* Math.max(-1, Math.min(1, s)) without the Math.min: no upper clamp.
Clamp_NoUpper(s) == MathMax(MinusOne, s)

\* let s = Math.max(-1, Math.min(1, downsampledData[i]))
Clamp(s) == MathMax(MinusOne, MathMin(One, s))

\* s * 0x8000 on both branches: the symmetric scale.
Scale_Symmetric(s) == Rat(s.n * NegScale, s.d)

\* s < 0 ? s * 0x8000 : s * 0x7FFF
Scale(s) == IF s.n < 0 THEN Rat(s.n * NegScale, s.d) ELSE Rat(s.n * PosScale, s.d)

\* int16[i] = <number>: the number is truncated towards zero and kept
\* modulo 2^16.
StoreInt16(r) == ToInt16(TruncDiv(r.n, r.d))

\* One turn of the loop of createPcmBlob: the integer of a sample.
FloatToInt16(sample) == StoreInt16(Scale(Clamp(sample)))

\* dataInt16[k] / 32767.0
Int16ToFloat_32767(v) == Rat(v, PosScale)

\* dataInt16[k] / 32768.0
Int16ToFloat(v) == Rat(v, DecodeScale)

\* ---------------------------------------------------------- decodeAudioData
\* decodeAudioData with frameCount rounded up, Math.ceil(dataInt16.length /
\* numChannels): the incomplete frame is kept, its missing integers read as 0.
DecodeAudioData_CeilFrames(bytes, numChannels) ==
  IF Len(bytes) % 2 # 0
  THEN [threw |-> "RangeError", channels |-> << >>]
  ELSE LET dataInt16 == Int16Array(bytes)
           length == (Len(dataInt16) + numChannels - 1) \div numChannels
           at(k) == IF k <= Len(dataInt16) THEN dataInt16[k] ELSE 0
       IN  IF length = 0
           THEN [threw |-> "NotSupportedError", channels |-> << >>]
           ELSE [threw |-> "none",
                 channels |->
                   [channel \in 1..numChannels |->
                      [i \in 1..length |->
                         Int16ToFloat(at((i - 1) * numChannels + channel))]]]

\* decodeAudioData reading channel after channel, dataInt16[channel *
\* frameCount + i]: the samples taken as planar, not interleaved.
DecodeAudioData_Planar(bytes, numChannels) ==
  IF Len(bytes) % 2 # 0
  THEN [threw |-> "RangeError", channels |-> << >>]
  ELSE LET dataInt16 == Int16Array(bytes)
           length == Len(dataInt16) \div numChannels
       IN  IF length = 0
           THEN [threw |-> "NotSupportedError", channels |-> << >>]
           ELSE [threw |-> "none",
                 channels |->
                   [channel \in 1..numChannels |->
                      [i \in 1..length |->
                         Int16ToFloat(dataInt16[(channel - 1) * length + i])]]]

\* decodeAudioData(data, ctx, sampleRate, numChannels).  The Int16Array view
\* of a buffer of odd length throws a RangeError; ctx.createBuffer converts
\* frameCount to an integer by truncation and throws a NotSupportedError for
\* a length of zero; a store past the end of a channel is ignored.
DecodeAudioData(bytes, numChannels) ==
  IF Len(bytes) % 2 # 0
  THEN [threw |-> "RangeError", channels |-> << >>]
  ELSE LET dataInt16 == Int16Array(bytes)
           length == Len(dataInt16) \div numChannels
       IN  IF length = 0
           THEN [threw |-> "NotSupportedError", channels |-> << >>]
           ELSE [threw |-> "none",
                 channels |->
                   [channel \in 1..numChannels |->
                      [i \in 1..length |->
                         Int16ToFloat(dataInt16[(i - 1) * numChannels + channel])]]]

\* ------------------------------------------------------------------ state
VARIABLES
  pc,               \* the position of the running call
  buffer,           \* createPcmBlob's data, downsampleBuffer's buffer
  inputSampleRate,  \* ctx.sampleRate
  outputSampleRate, \* downsampleBuffer's outputSampleRate
  newLength,        \* downsampleBuffer's locals
  result,
  offsetResult,
  offsetBuffer,
  windows,          \* per output index, the input indices the loop read
  downsampledData,  \* createPcmBlob's locals
  int16,
  blob,             \* createPcmBlob's return value
  decoded,          \* decodeAudioData's outcome for the payload's bytes
  bytesIn,          \* the byte sequence of the base64 round trip
  base64,           \* arrayBufferToBase64's return value
  bytesOut,         \* base64ToUint8Array's return value
  data,             \* decodeAudioData's data
  numChannels,      \* decodeAudioData's numChannels
  \* ---- the LiveSession component
  status,           \* SessionStatus
  errorMsg,
  mounted,          \* the component is mounted
  inputContextRef,  \* the refs: 0 is null, k the object startSession call k made
  outputContextRef,
  streamRef,
  processorRef,
  sourceRef,
  sessionRef,       \* 0 or k, the sessionPromise of call k
  audioSourcesRef,  \* the set of active playback sources
  starts,           \* the calls of startSession that found a key
  startPc,          \* per call: where startSession stands
  promise,          \* per call: the state of sessionPromise
  conn,             \* per call: the state of the connection to the service
  onopenPc,         \* per call: where the onopen callback stands
  nodeCtx,          \* per call: the context ctx its onopen callback holds
  reactions,        \* per call: the callbacks waiting on sessionPromise
  sent,             \* per call: the blocks passed to session.sendRealtimeInput
  blocks,           \* the blocks captured so far, in capture order
  openContexts,     \* the audio contexts created and not closed
  liveTracks,       \* the microphone streams whose tracks are not stopped
  connectedNodes,   \* the processor and source nodes connected
  released,         \* what the last handler's cleanupAudio released, in order
  releasedPrev,     \* the same for the handler before it
  lastOp,           \* the last handler that ran
  stopped,          \* stopSession has run since the last startSession
  \* ---- the LiveSession component: server messages
  transcripts,      \* the TranscriptItem list
  latestAnalysis,   \* the AnalysisData shown, or undefined
  currentText,      \* the live caption
  currentInputTransRef,
  toolResponses,    \* per call: the lists passed to session.sendToolResponse
  handled,          \* the server messages onmessage has handled, in order
  lastApiKey        \* the apiKey of the last startSession

pcmVars ==
  << buffer, inputSampleRate, outputSampleRate, newLength, result,
     offsetResult, offsetBuffer, windows, downsampledData, int16, blob,
     decoded >>

b64Vars == << bytesIn, base64, bytesOut >>

decVars == << data, numChannels >>

refVars ==
  << inputContextRef, outputContextRef, streamRef, processorRef, sourceRef,
     audioSourcesRef >>

deviceVars == << openContexts, liveTracks, connectedNodes >>

liveVars ==
  << status, errorMsg, mounted, refVars, sessionRef, starts, startPc, promise,
     conn, onopenPc, nodeCtx, reactions, sent, blocks, deviceVars, released,
     releasedPrev, lastOp, stopped >>

msgVars ==
  << transcripts, latestAnalysis, currentText, currentInputTransRef,
     toolResponses, handled >>

keyVars == << lastApiKey >>

vars == << pc, pcmVars, b64Vars, decVars, liveVars, msgVars, keyVars >>

None == "none"

\* ----------------------------------------------------------------- inputs
\* The samples of the model: the multiples of 1/SampleDen in [-1.5, 1.5].
MaxNum == SampleDen + SampleDen \div 2

Samples == { Rat(n, SampleDen) : n \in (-MaxNum)..MaxNum }

\* The samples of the longer blocks.
CoarseSamples ==
  { MinusOne, Zero, Rat(SampleDen - 1, SampleDen), One }

\* The blocks e.inputBuffer.getChannelData(0) can hold, within the bounds.
Blocks ==
  UNION { [1..n -> CoarseSamples] : n \in 0..MaxLen }
    \cup [1..1 -> Samples]
    \cup { [i \in 1..n |-> c] : n \in 0..MaxLong, c \in CoarseSamples }

\* The byte values of the longer byte sequences.
ByteSample == {0, 77, 128, 255}

\* The byte sequences of the round trip: every single byte, and the
\* sequences of up to MaxBytes bytes of ByteSample.
ByteSeqs ==
  [1..1 -> 0..255] \cup UNION { [1..n -> ByteSample] : n \in 0..MaxBytes }

\* ------------------------------------------------------- downsampleBuffer
\* Math.floor(buffer.length / sampleRatio): the length rounded down
NewLength_Floor(len, inRate, outRate) == MathFloorDiv(len * outRate, inRate)

\* Math.ceil(buffer.length / sampleRatio): the length rounded up
NewLength_Ceil(len, inRate, outRate) == -MathFloorDiv(-(len * outRate), inRate)

\* Math.round(buffer.length / sampleRatio), sampleRatio = inRate / outRate
NewLength(len, inRate, outRate) == MathRoundDiv(len * outRate, inRate)

\* Math.floor((offsetResult + 1) * sampleRatio): the window end rounded down
NextOffsetBuffer_Floor(j, inRate, outRate) ==
  MathFloorDiv((j + 1) * inRate, outRate)

\* Math.round((offsetResult + 1) * sampleRatio)
NextOffsetBuffer(j, inRate, outRate) == MathRoundDiv((j + 1) * inRate, outRate)

\* The value of i when the inner loop ends:
\* for (i = offsetBuffer; i < nextOffsetBuffer && i < buffer.length; i++)
LoopEnd(lo, next, len) ==
  LET stop == IF next < len THEN next ELSE len
  IN  IF lo < stop THEN stop ELSE lo

\* accum after the inner loop has read buffer[lo], ..., buffer[hi - 1]
RECURSIVE Accum(_, _, _)
Accum(buf, lo, hi) ==
  IF lo >= hi THEN Zero ELSE RatAdd(Accum(buf, lo, hi - 1), buf[hi])

\* count > 0 ? accum : 0: the sum of the window, not its mean
WindowValue_Sum(buf, lo, hi) == Accum(buf, lo, hi)

\* count > 0 ? accum / count : 0, for the window lo <= i < hi (0-based)
WindowValue(buf, lo, hi) ==
  LET count == hi - lo
  IN  IF count > 0 THEN RatDivInt(Accum(buf, lo, hi), count) ELSE Zero

\* offsetBuffer = nextOffsetBuffer - 1: the next window starts one index early
NextStart_Overlap(next) == IF next > 0 THEN next - 1 ELSE 0

\* offsetBuffer = nextOffsetBuffer
NextStart(next) == next

\* return new Float32Array(buffer.length): a copy that is never filled
SameRateResult_Blank(buf) == [i \in 1..Len(buf) |-> Zero]

\* if (inputSampleRate === outputSampleRate) return buffer
SameRateResult(buf) == buf

\* `audio/pcm;rate=${TARGET_RATE}`: the text and the number it ends with
MimeType(rate) == << "audio/pcm;rate=", rate >>

\* ---------------------------------------------------------- createPcmBlob
PcmIdle ==
  /\ outputSampleRate = 0
  /\ newLength = 0
  /\ result = << >>
  /\ offsetResult = 0
  /\ offsetBuffer = 0
  /\ windows = << >>
  /\ downsampledData = << >>
  /\ int16 = << >>
  /\ blob = None
  /\ decoded = None

B64Idle ==
  /\ base64 = None
  /\ bytesOut = None

DecIdle ==
  /\ data = << >>
  /\ numChannels = 0

Starts == 1..MaxStarts

\* The JavaScript value undefined.
Undefined == [kind |-> "undefined"]

\* The LiveSession component as first rendered: the useState and useRef
\* initial values, nothing created yet.
LiveIdle ==
  /\ status = "IDLE"
  /\ errorMsg = None
  /\ mounted = TRUE
  /\ inputContextRef = 0
  /\ outputContextRef = 0
  /\ streamRef = 0
  /\ processorRef = 0
  /\ sourceRef = 0
  /\ sessionRef = 0
  /\ audioSourcesRef = {}
  /\ starts = 0
  /\ startPc = [k \in Starts |-> None]
  /\ promise = [k \in Starts |-> None]
  /\ conn = [k \in Starts |-> None]
  /\ onopenPc = [k \in Starts |-> None]
  /\ nodeCtx = [k \in Starts |-> 0]
  /\ reactions = [k \in Starts |-> << >>]
  /\ sent = [k \in Starts |-> << >>]
  /\ blocks = << >>
  /\ openContexts = {}
  /\ liveTracks = {}
  /\ connectedNodes = {}
  /\ released = None
  /\ releasedPrev = None
  /\ lastOp = None
  /\ stopped = FALSE
  /\ transcripts = << >>
  /\ latestAnalysis = Undefined
  /\ currentText = << >>
  /\ currentInputTransRef = << >>
  /\ toolResponses = [k \in Starts |-> << >>]
  /\ handled = << >>
  /\ lastApiKey = None

\* createPcmBlob(data, ctx.sampleRate) has been called.
InitPcm ==
  /\ pc = "createPcmBlob"
  /\ buffer \in Blocks
  /\ inputSampleRate \in InputRates
  /\ PcmIdle
  /\ bytesIn = << >>
  /\ B64Idle
  /\ DecIdle
  /\ LiveIdle

\* downsampleBuffer(data, inputSampleRate, TARGET_RATE), equal rates
DownsampleSameRate ==
  /\ pc = "createPcmBlob"
  /\ inputSampleRate = TARGET_RATE
  /\ outputSampleRate' = TARGET_RATE
  /\ downsampledData' = SameRateResult(buffer)
  /\ pc' = "quantize"
  /\ UNCHANGED << buffer, inputSampleRate, newLength, result, offsetResult,
                  offsetBuffer, windows, int16, blob, decoded, b64Vars, decVars, liveVars, msgVars, keyVars >>

\* downsampleBuffer(data, inputSampleRate, TARGET_RATE), different rates:
\* up to the loop
DownsampleAlloc ==
  /\ pc = "createPcmBlob"
  /\ inputSampleRate # TARGET_RATE
  /\ outputSampleRate' = TARGET_RATE
  /\ newLength' = NewLength(Len(buffer), inputSampleRate, TARGET_RATE)
  /\ result' = [j \in 1..newLength' |-> Zero]
  /\ offsetResult' = 0
  /\ offsetBuffer' = 0
  /\ windows' = << >>
  /\ pc' = "loop"
  /\ UNCHANGED << buffer, inputSampleRate, downsampledData, int16, blob,
                  decoded, b64Vars, decVars, liveVars, msgVars, keyVars >>

\* One turn of while (offsetResult < newLength)
DownsampleIteration ==
  /\ pc = "loop"
  /\ offsetResult < newLength
  /\ LET nextOffsetBuffer ==
           NextOffsetBuffer(offsetResult, inputSampleRate, outputSampleRate)
         hi == LoopEnd(offsetBuffer, nextOffsetBuffer, Len(buffer))
     IN  /\ result' = [result EXCEPT ![offsetResult + 1] =
                         WindowValue(buffer, offsetBuffer, hi)]
         /\ windows' = Append(windows, [lo |-> offsetBuffer, hi |-> hi])
         /\ offsetBuffer' = NextStart(nextOffsetBuffer)
  /\ offsetResult' = offsetResult + 1
  /\ UNCHANGED << pc, buffer, inputSampleRate, outputSampleRate, newLength,
                  downsampledData, int16, blob, decoded, b64Vars, decVars, liveVars, msgVars, keyVars >>

\* The loop ends: return result
DownsampleReturn ==
  /\ pc = "loop"
  /\ offsetResult >= newLength
  /\ downsampledData' = result
  /\ pc' = "quantize"
  /\ UNCHANGED << buffer, inputSampleRate, outputSampleRate, newLength, result,
                  offsetResult, offsetBuffer, windows, int16, blob, decoded,
                  b64Vars, decVars, liveVars, msgVars, keyVars >>

\* The loop of createPcmBlob over downsampledData
Quantize ==
  /\ pc = "quantize"
  /\ int16' = [i \in 1..Len(downsampledData) |->
                 FloatToInt16(downsampledData[i])]
  /\ pc' = "return"
  /\ UNCHANGED << buffer, inputSampleRate, outputSampleRate, newLength, result,
                  offsetResult, offsetBuffer, windows, downsampledData, blob,
                  decoded, b64Vars, decVars, liveVars, msgVars, keyVars >>

\* return { data: arrayBufferToBase64(int16.buffer), mimeType: ... }
ReturnBlob ==
  /\ pc = "return"
  /\ blob' = [data |-> ArrayBufferToBase64(Int16Bytes(int16)),
              mimeType |-> MimeType(TARGET_RATE)]
  /\ pc' = "encoded"
  /\ UNCHANGED << buffer, inputSampleRate, outputSampleRate, newLength, result,
                  offsetResult, offsetBuffer, windows, downsampledData, int16,
                  decoded, b64Vars, decVars, liveVars, msgVars, keyVars >>

\* The payload is decoded again:
\* decodeAudioData(base64ToUint8Array(blob.data), ctx, 16000, 1)
DecodePayload ==
  /\ pc = "encoded"
  /\ decoded' = DecodeAudioData(Base64ToUint8Array(blob.data), 1)
  /\ pc' = "decoded"
  /\ UNCHANGED << buffer, inputSampleRate, outputSampleRate, newLength, result,
                  offsetResult, offsetBuffer, windows, downsampledData, int16,
                  blob, b64Vars, decVars, liveVars, msgVars, keyVars >>

NextPcm ==
  \/ DownsampleSameRate
  \/ DownsampleAlloc
  \/ DownsampleIteration
  \/ DownsampleReturn
  \/ Quantize
  \/ ReturnBlob
  \/ DecodePayload

SpecPcm == InitPcm /\ [][NextPcm]_vars

\* ------------------------------------------------- the base64 round trip
InitB64 ==
  /\ pc = "arrayBufferToBase64"
  /\ bytesIn \in ByteSeqs
  /\ B64Idle
  /\ buffer = << >>
  /\ inputSampleRate = 0
  /\ PcmIdle
  /\ DecIdle
  /\ LiveIdle

EncodeBytes ==
  /\ pc = "arrayBufferToBase64"
  /\ base64' = ArrayBufferToBase64(bytesIn)
  /\ pc' = "base64ToUint8Array"
  /\ UNCHANGED << bytesIn, bytesOut, pcmVars, decVars, liveVars, msgVars, keyVars >>

DecodeText ==
  /\ pc = "base64ToUint8Array"
  /\ bytesOut' = Base64ToUint8Array(base64)
  /\ pc' = "done"
  /\ UNCHANGED << bytesIn, base64, pcmVars, decVars, liveVars, msgVars, keyVars >>

NextB64 == EncodeBytes \/ DecodeText

SpecB64 == InitB64 /\ [][NextB64]_vars

\* ------------------------------------------------- decodeAudioData alone
\* The 16-bit integers of the decoder's inputs.
IntSample == {-32768, -1, 12345}

\* The byte sequences handed to decodeAudioData: the bytes of up to
\* MaxSamples integers, and the same with one more byte (an odd length).
DecodeInputs ==
  LET ints == UNION { [1..n -> IntSample] : n \in 0..MaxSamples }
  IN  { Int16Bytes(x) : x \in ints } \cup { Int16Bytes(x) \o << 77 >> : x \in ints }

\* decodeAudioData(data, ctx, sampleRate, numChannels) has been called.
InitDecode ==
  /\ pc = "decodeAudioData"
  /\ data \in DecodeInputs
  /\ numChannels \in 1..MaxChannels
  /\ buffer = << >>
  /\ inputSampleRate = 0
  /\ PcmIdle
  /\ bytesIn = << >>
  /\ B64Idle
  /\ LiveIdle

\* The call runs to its return or to the exception that ends it.
DecodeCall ==
  /\ pc = "decodeAudioData"
  /\ decoded' = DecodeAudioData(data, numChannels)
  /\ pc' = "decodeReturned"
  /\ UNCHANGED << buffer, inputSampleRate, outputSampleRate, newLength, result,
                  offsetResult, offsetBuffer, windows, downsampledData, int16,
                  blob, b64Vars, decVars, liveVars, msgVars, keyVars >>

NextDecode == DecodeCall

SpecDecode == InitDecode /\ [][NextDecode]_vars

\* ======================================================== LiveSession
\* One release cleanupAudio performs on a device object.
Release(act, kind, id) == [act |-> act, kind |-> kind, id |-> id]

\* The members of a Set in the order forEach visits them.
RECURSIVE ForEachOrder(_)
ForEachOrder(S) ==
  IF S = {} THEN << >>
  ELSE LET x == CHOOSE y \in S : TRUE
       IN  << x >> \o ForEachOrder(S \ {x})

\* The releases of cleanupAudio in the order of its statements.
CleanupLog(processor, source, stream, input, output, sources) ==
  (IF processor # 0 THEN << Release("disconnect", "processor", processor) >>
                    ELSE << >>)
  \o (IF source # 0 THEN << Release("disconnect", "source", source) >>
                    ELSE << >>)
  \o (IF stream # 0 THEN << Release("stop", "track", stream) >> ELSE << >>)
  \o (IF input # 0 THEN << Release("close", "input", input) >> ELSE << >>)
  \o (IF output # 0 THEN << Release("close", "output", output) >> ELSE << >>)
  \o [i \in 1..Cardinality(sources) |->
        Release("stop", "playback", ForEachOrder(sources)[i])]

\* A cleanupAudio that stops the tracks and keeps streamRef.current.
CleanupAudio_KeepsStream(processor, source, stream, input, output, sources) ==
  [processorRef |-> 0, sourceRef |-> 0, streamRef |-> stream,
   inputContextRef |-> 0, outputContextRef |-> 0, audioSourcesRef |-> {},
   log |-> CleanupLog(processor, source, stream, input, output, sources)]

\* cleanupAudio: the refs it leaves and the releases it performed.
CleanupAudio(processor, source, stream, input, output, sources) ==
  [processorRef |-> 0, sourceRef |-> 0, streamRef |-> 0,
   inputContextRef |-> 0, outputContextRef |-> 0, audioSourcesRef |-> {},
   log |-> CleanupLog(processor, source, stream, input, output, sources)]

\* The objects of one kind that a log releases by one act.
ReleasedBy(log, act) ==
  { << log[i].kind, log[i].id >> : i \in { j \in 1..Len(log) : log[j].act = act } }

\* A handler calls cleanupAudio: the refs, the devices and the log after it.
CallCleanupAudio ==
  LET c == CleanupAudio(processorRef, sourceRef, streamRef, inputContextRef,
                        outputContextRef, audioSourcesRef)
  IN  /\ processorRef' = c.processorRef
      /\ sourceRef' = c.sourceRef
      /\ streamRef' = c.streamRef
      /\ inputContextRef' = c.inputContextRef
      /\ outputContextRef' = c.outputContextRef
      /\ audioSourcesRef' = c.audioSourcesRef
      /\ connectedNodes' = connectedNodes \ ReleasedBy(c.log, "disconnect")
      /\ liveTracks' =
           liveTracks \ { o[2] : o \in { r \in ReleasedBy(c.log, "stop") : r[1] = "track" } }
      /\ openContexts' = openContexts \ ReleasedBy(c.log, "close")
      /\ released' = c.log

\* A handler that does not call cleanupAudio leaves an empty record of it.
NoCleanupAudio == released' = None

\* Every handler records its name and moves the last record one back.
Ran(op) ==
  /\ lastOp' = op
  /\ releasedPrev' = released

utilVars == << pc, pcmVars, b64Vars, decVars >>

InitLive ==
  /\ pc = "LiveSession"
  /\ buffer = << >>
  /\ inputSampleRate = 0
  /\ PcmIdle
  /\ bytesIn = << >>
  /\ B64Idle
  /\ DecIdle
  /\ LiveIdle

\* process.env.API_KEY and import.meta.env.VITE_API_KEY as getApiKey finds
\* them: not set, empty, a key in double quotes, a blank in quotes.
KeyValues ==
  { Undefined, [kind |-> "string", chars |-> << >>],
    [kind |-> "string", chars |-> << "\"", "k", "\"" >>],
    [kind |-> "string", chars |-> << "'", " ", "'" >>] }

\* key.replace(/["']/g, ""): the key without its quote characters
RECURSIVE RemoveQuotes(_)
RemoveQuotes(chars) ==
  IF chars = << >> THEN << >>
  ELSE (IF Head(chars) \in {"\"", "'"} THEN << >> ELSE << Head(chars) >>)
       \o RemoveQuotes(Tail(chars))

\* String.prototype.trim of the key
RECURSIVE TrimKey(_)
TrimKey(chars) ==
  IF chars # << >> /\ Head(chars) = " " THEN TrimKey(Tail(chars))
  ELSE IF chars # << >> /\ chars[Len(chars)] = " "
  THEN TrimKey(SubSeq(chars, 1, Len(chars) - 1))
  ELSE chars

\* getApiKey: process.env.API_KEY if it is set and not empty, or else
\* import.meta.env.VITE_API_KEY, or else '', without quotes and trimmed.
GetApiKey(processKey, viteKey) ==
  LET key == IF processKey # Undefined /\ processKey.chars # << >>
             THEN processKey.chars
             ELSE IF viteKey # Undefined /\ viteKey.chars # << >>
             THEN viteKey.chars
             ELSE << >>
  IN  TrimKey(RemoveQuotes(key))

\* The key test left out: startSession goes on with any key.
KeyMissing_Never(apiKey) == FALSE

\* !apiKey
KeyMissing(apiKey) == apiKey = << >>

\* startSession up to its first await, or to its return without a key.
\* The Start button is shown enabled in the IDLE and ERROR states only.
StartSession(apiKey) ==
  /\ mounted
  /\ status \in {"IDLE", "ERROR"}
  /\ stopped' = FALSE
  /\ lastApiKey' = apiKey
  /\ IF KeyMissing(apiKey)
     THEN /\ errorMsg' = "API Key not found"
          /\ status' = "ERROR"
          /\ UNCHANGED << starts, inputContextRef, outputContextRef,
                          openContexts, startPc >>
     ELSE /\ starts < MaxStarts
          /\ starts' = starts + 1
          /\ errorMsg' = None
          /\ status' = "CONNECTING"
          /\ inputContextRef' = starts'
          /\ outputContextRef' = starts'
          /\ openContexts' =
               openContexts \cup {<< "input", starts' >>, << "output", starts' >>}
          /\ startPc' = [startPc EXCEPT ![starts'] = "getUserMedia"]
  /\ NoCleanupAudio
  /\ Ran("startSession")
  /\ UNCHANGED << mounted, streamRef, processorRef, sourceRef, audioSourcesRef,
                  sessionRef, promise, conn, onopenPc, nodeCtx, reactions,
                  sent, blocks, liveTracks, connectedNodes, utilVars >>
  /\ transcripts' = << >>
  /\ currentText' = << >>
  /\ currentInputTransRef' = << >>
  /\ UNCHANGED << latestAnalysis, toolResponses, handled >>

\* getUserMedia resolves: startSession stores the stream, calls
\* ai.live.connect, registers its catch and stores the promise.
MicrophoneGranted(k) ==
  /\ startPc[k] = "getUserMedia"
  /\ startPc' = [startPc EXCEPT ![k] = "returned"]
  /\ streamRef' = k
  /\ liveTracks' = liveTracks \cup {k}
  /\ promise' = [promise EXCEPT ![k] = "pending"]
  /\ conn' = [conn EXCEPT ![k] = "opening"]
  /\ sessionRef' = k
  /\ NoCleanupAudio
  /\ Ran("getUserMedia")
  /\ UNCHANGED << status, errorMsg, mounted, inputContextRef, outputContextRef,
                  processorRef, sourceRef, audioSourcesRef, starts, onopenPc,
                  nodeCtx, reactions, sent, blocks, openContexts,
                  connectedNodes, stopped, utilVars, msgVars, keyVars >>

\* getUserMedia rejects: the catch block of startSession.
MicrophoneDenied(k) ==
  /\ startPc[k] = "getUserMedia"
  /\ startPc' = [startPc EXCEPT ![k] = "failed"]
  /\ errorMsg' = "Failed to initialize session"
  /\ status' = "ERROR"
  /\ CallCleanupAudio
  /\ Ran("initFailed")
  /\ UNCHANGED << mounted, sessionRef, starts, promise, conn, onopenPc, nodeCtx,
                  reactions, sent, blocks, stopped, utilVars, msgVars, keyVars >>

\* The end of onopen: the source and processor nodes are made on ctx,
\* connected, and stored in the refs.
ConnectNodes(k) ==
  /\ connectedNodes' =
       connectedNodes \cup {<< "processor", k >>, << "source", k >>}
  /\ processorRef' = k
  /\ sourceRef' = k
  /\ onopenPc' = [onopenPc EXCEPT ![k] = "returned"]

\* The connection of call k opens and the service calls onopen, which runs
\* to its return or to its await of ctx.resume().
OnOpen(k, suspended) ==
  /\ conn[k] = "opening"
  /\ conn' = [conn EXCEPT ![k] = "open"]
  /\ status' = "CONNECTED"
  /\ IF inputContextRef = 0 \/ streamRef = 0
     THEN /\ onopenPc' = [onopenPc EXCEPT ![k] = "returned"]
          /\ UNCHANGED << nodeCtx, connectedNodes, processorRef, sourceRef >>
     ELSE /\ nodeCtx' = [nodeCtx EXCEPT ![k] = inputContextRef]
          /\ IF suspended
             THEN /\ onopenPc' = [onopenPc EXCEPT ![k] = "resume"]
                  /\ UNCHANGED << connectedNodes, processorRef, sourceRef >>
             ELSE ConnectNodes(k)
  /\ NoCleanupAudio
  /\ Ran("onopen")
  /\ UNCHANGED << errorMsg, mounted, inputContextRef, outputContextRef,
                  streamRef, audioSourcesRef, sessionRef, starts, startPc,
                  promise, reactions, sent, blocks, openContexts, liveTracks,
                  stopped, utilVars, msgVars, keyVars >>

\* ctx.resume() settles and onopen goes on.  resume() rejects on a closed
\* context and createMediaStreamSource(null) throws: onopen ends there.
OnOpenResumed(k) ==
  /\ onopenPc[k] = "resume"
  /\ IF << "input", nodeCtx[k] >> \notin openContexts \/ streamRef = 0
     THEN /\ onopenPc' = [onopenPc EXCEPT ![k] = "threw"]
          /\ UNCHANGED << connectedNodes, processorRef, sourceRef >>
     ELSE ConnectNodes(k)
  /\ NoCleanupAudio
  /\ Ran("onopenResumed")
  /\ UNCHANGED << status, errorMsg, mounted, inputContextRef, outputContextRef,
                  streamRef, audioSourcesRef, sessionRef, starts, startPc,
                  promise, conn, nodeCtx, reactions, sent, blocks,
                  openContexts, liveTracks, stopped, utilVars, msgVars, keyVars >>

\* A callback waiting on sessionPromise.
SendReaction(b) == [type |-> "send", block |-> b]

CloseReaction == [type |-> "close", block |-> 0]

\* The waiting callbacks run last registered first.
RECURSIVE RunReactions_LastFirst(_)
RunReactions_LastFirst(queue) ==
  IF queue = << >> THEN << >>
  ELSE RunReactions_LastFirst(Tail(queue))
       \o (IF Head(queue).type = "send" THEN << Head(queue).block >> ELSE << >>)

\* The waiting callbacks are forgotten.
RunReactions_Forgotten(queue) == << >>

\* The blocks passed to session.sendRealtimeInput when sessionPromise
\* resolves: its waiting callbacks run in the order they were registered.
RECURSIVE RunReactions(_)
RunReactions(queue) ==
  IF queue = << >> THEN << >>
  ELSE (IF Head(queue).type = "send" THEN << Head(queue).block >> ELSE << >>)
       \o RunReactions(Tail(queue))

\* The callback of onmessage waiting on sessionPromise with its responses.
ToolReaction(responses) == [type |-> "toolResponse", responses |-> responses]

\* The lists passed to session.sendToolResponse when sessionPromise
\* resolves, in the order their callbacks were registered.
RECURSIVE RunToolReactions(_)
RunToolReactions(queue) ==
  IF queue = << >> THEN << >>
  ELSE (IF Head(queue).type = "toolResponse"
        THEN << Head(queue).responses >> ELSE << >>)
       \o RunToolReactions(Tail(queue))

\* session.close() on the connection of call k.
SessionClose(k, state) == IF state = "open" THEN "closing" ELSE state

\* sessionPromise of call k resolves, after the connection has opened.
SessionResolved(k) ==
  /\ promise[k] = "pending"
  /\ conn[k] \notin {None, "opening"}
  /\ promise' = [promise EXCEPT ![k] = "resolved"]
  /\ sent' = [sent EXCEPT ![k] = sent[k] \o RunReactions(reactions[k])]
  /\ conn' = [conn EXCEPT ![k] =
                IF \E i \in 1..Len(reactions[k]) : reactions[k][i].type = "close"
                THEN SessionClose(k, conn[k]) ELSE conn[k]]
  /\ toolResponses' = [toolResponses EXCEPT
                          ![k] = @ \o RunToolReactions(reactions[k])]
  /\ reactions' = [reactions EXCEPT ![k] = << >>]
  /\ NoCleanupAudio
  /\ Ran("resolved")
  /\ UNCHANGED << status, errorMsg, mounted, refVars, sessionRef, starts,
                  startPc, onopenPc, nodeCtx, blocks, deviceVars, stopped,
                  utilVars, transcripts, latestAnalysis, currentText,
                  currentInputTransRef, handled, keyVars >>

\* sessionPromise of call k rejects, the connection never opened: the catch
\* of startSession runs, the waiting callbacks are skipped.
SessionRejected(k) ==
  /\ promise[k] = "pending"
  /\ conn[k] = "opening"
  /\ promise' = [promise EXCEPT ![k] = "rejected"]
  /\ conn' = [conn EXCEPT ![k] = "closed"]
  /\ reactions' = [reactions EXCEPT ![k] = << >>]
  /\ errorMsg' = "Connection Failed"
  /\ status' = "ERROR"
  /\ CallCleanupAudio
  /\ Ran("connectFailed")
  /\ UNCHANGED << mounted, sessionRef, starts, startPc, onopenPc, nodeCtx, sent,
                  blocks, stopped, utilVars, msgVars, keyVars >>

\* The processor of call k fires onaudioprocess with one more block: the
\* send is a callback on sessionPromise, run at once when it is resolved.
OnAudioProcess(k) ==
  /\ << "processor", k >> \in connectedNodes
  /\ << "input", nodeCtx[k] >> \in openContexts
  /\ Len(blocks) < MaxBlocks
  /\ blocks' = Append(blocks, [call |-> k, pending |-> promise[k] = "pending"])
  /\ CASE promise[k] = "pending" ->
            /\ reactions' = [reactions EXCEPT
                               ![k] = Append(@, SendReaction(Len(blocks')))]
            /\ UNCHANGED sent
       [] promise[k] = "resolved" ->
            /\ sent' = [sent EXCEPT ![k] = Append(@, Len(blocks'))]
            /\ UNCHANGED reactions
       [] OTHER -> UNCHANGED << reactions, sent >>
  /\ NoCleanupAudio
  /\ Ran("onaudioprocess")
  /\ UNCHANGED << status, errorMsg, mounted, refVars, sessionRef, starts,
                  startPc, promise, conn, onopenPc, nodeCtx, deviceVars,
                  stopped, utilVars, msgVars, keyVars >>

\* The open connection of call k fails and the service calls onerror.
OnError(k) ==
  /\ conn[k] \in {"open", "closing"}
  /\ conn' = [conn EXCEPT ![k] = "failed"]
  /\ errorMsg' = "Session Error"
  /\ status' = "ERROR"
  /\ CallCleanupAudio
  /\ Ran("onerror")
  /\ UNCHANGED << mounted, sessionRef, starts, startPc, promise, onopenPc,
                  nodeCtx, reactions, sent, blocks, stopped, utilVars, msgVars, keyVars >>

\* The connection of call k closes and the service calls onclose.
OnClose(k) ==
  /\ conn[k] \in {"open", "closing", "failed"}
  /\ conn' = [conn EXCEPT ![k] = "closed"]
  /\ status' = "IDLE"
  /\ CallCleanupAudio
  /\ Ran("onclose")
  /\ UNCHANGED << errorMsg, mounted, sessionRef, starts, startPc, promise,
                  onopenPc, nodeCtx, reactions, sent, blocks, stopped,
                  utilVars, msgVars, keyVars >>

\* The body of stopSession.
StopSessionBody ==
  /\ CallCleanupAudio
  /\ status' = "IDLE"
  /\ stopped' = TRUE
  /\ sessionRef' = 0
  /\ IF sessionRef # 0 /\ promise[sessionRef] = "pending"
     THEN reactions' = [reactions EXCEPT ![sessionRef] = Append(@, CloseReaction)]
     ELSE UNCHANGED reactions
  /\ IF sessionRef # 0 /\ promise[sessionRef] = "resolved"
     THEN conn' = [conn EXCEPT ![sessionRef] = SessionClose(sessionRef, @)]
     ELSE UNCHANGED conn
  /\ currentText' = << >>
  /\ latestAnalysis' = Undefined
  /\ UNCHANGED << errorMsg, starts, startPc, promise, onopenPc, nodeCtx, sent,
                  blocks, utilVars, transcripts, currentInputTransRef,
                  toolResponses, handled, keyVars >>

\* The Stop button, shown in the CONNECTED state only.
StopSession ==
  /\ mounted
  /\ status = "CONNECTED"
  /\ StopSessionBody
  /\ Ran("stopSession")
  /\ UNCHANGED mounted

\* The component unmounts: the effect's cleanup calls stopSession.
Unmount ==
  /\ mounted
  /\ mounted' = FALSE
  /\ StopSessionBody
  /\ Ran("unmount")

\* ------------------------------------------------------------ onmessage
\* JavaScript values: a string is the sequence of its characters.
Str(chars) == [kind |-> "string", chars |-> chars]

Num(n) == [kind |-> "number", n |-> n]

Arr(items) == [kind |-> "array", items |-> items]

\* A value is truthy: a non-empty string, a number other than 0.
Truthy(v) ==
  CASE v.kind = "string" -> v.chars # << >>
    [] v.kind = "number" -> v.n # 0
    [] OTHER -> FALSE

\* v || fallback
OrElse(v, fallback) == IF Truthy(v) THEN v ELSE fallback

\* String.prototype.trim: the white space at both ends removed.
RECURSIVE TrimStart(_)
TrimStart(chars) ==
  IF chars # << >> /\ Head(chars) = " " THEN TrimStart(Tail(chars)) ELSE chars

RECURSIVE TrimEnd(_)
TrimEnd(chars) ==
  IF chars # << >> /\ chars[Len(chars)] = " "
  THEN TrimEnd(SubSeq(chars, 1, Len(chars) - 1)) ELSE chars

Trim(chars) == TrimEnd(TrimStart(chars))

UpperCase ==
  << "A", "B", "C", "D", "E", "F", "G", "H", "I", "J", "K", "L", "M",
     "N", "O", "P", "Q", "R", "S", "T", "U", "V", "W", "X", "Y", "Z" >>

LowerCase ==
  << "a", "b", "c", "d", "e", "f", "g", "h", "i", "j", "k", "l", "m",
     "n", "o", "p", "q", "r", "s", "t", "u", "v", "w", "x", "y", "z" >>

\* String.prototype.toLowerCase
ToLowerCase(chars) ==
  [i \in 1..Len(chars) |->
     IF \E u \in 1..Len(UpperCase) : UpperCase[u] = chars[i]
     THEN LowerCase[CHOOSE u \in 1..Len(UpperCase) : UpperCase[u] = chars[i]]
     ELSE chars[i]]

\* String.prototype.includes
Includes(chars, part) ==
  \E i \in 0..(Len(chars) - Len(part)) :
    SubSeq(chars, i + 1, i + Len(part)) = part

CustomerWord == << "c", "u", "s", "t", "o", "m", "e", "r" >>

SalesRep == Str(<< "S", "a", "l", "e", "s", " ", "R", "e", "p" >>)

\* The text is kept without trimming when it has 2 characters.
TextIsEmpty_Untrimmed(text) == Len(text.chars) < 2

\* args.text.trim().length < 2, for a string text
TextIsEmpty(text) == Len(Trim(text.chars)) < 2

\* Every speaker counts as the customer.
IsCustomer_AnySpeaker(speaker) == TRUE

\* args.speaker.toLowerCase().includes('customer'), for a string speaker
IsCustomer(speaker) == Includes(ToLowerCase(speaker.chars), CustomerWord)

\* The response always names logTurn.
Response_NamedLogTurn(fc, outcome) ==
  [id |-> fc.id, name |-> "logTurn", response |-> [result |-> outcome]]

\* { id: fc.id, name: fc.name, response: { result: outcome } }
Response(fc, outcome) ==
  [id |-> fc.id, name |-> fc.name, response |-> [result |-> outcome]]

\* The TranscriptItem of a call (its timestamp, the time of day, left out).
NewTranscript(fc) ==
  [id |-> fc.id, speaker |-> OrElse(fc.args.speaker, SalesRep),
   text |-> fc.args.text]

\* The AnalysisData of a call, each missing field replaced by its default.
NewAnalysis(args) ==
  [sentiment |-> OrElse(args.sentiment, Str(<< "N", "e", "u", "t", "r", "a", "l" >>)),
   emotion |-> OrElse(args.emotion, Str(<< "N", "/", "A" >>)),
   intent |-> OrElse(args.intent, Str(<< "U", "n", "k", "n", "o", "w", "n" >>)),
   entities |-> IF args.entities = Undefined THEN Arr(<< >>) ELSE args.entities,
   suggestions |->
     [suggestedQuestions |->
        IF args.suggestedQuestions = Undefined THEN Arr(<< >>)
        ELSE args.suggestedQuestions,
      objectionHandling |->
        IF args.objectionHandling = Undefined THEN Arr(<< >>)
        ELSE args.objectionHandling,
      productRecommendations |->
        IF args.productRecommendations = Undefined THEN Arr(<< >>)
        ELSE args.productRecommendations]]

\* One turn of functionCalls.map on the state st = [transcripts,
\* latestAnalysis, responses]: the state after the callback ran on fc.
\* Reading a property of undefined and calling trim or toLowerCase on a
\* value that is no string throw, and the catch answers "error".
MapCall(fc, st) ==
  LET answer(t, a, outcome) ==
        [transcripts |-> t, latestAnalysis |-> a,
         responses |-> Append(st.responses, Response(fc, outcome))]
      keep(outcome) == answer(st.transcripts, st.latestAnalysis, outcome)
      appended == Append(st.transcripts, NewTranscript(fc))
  IN  IF fc.name # "logTurn" THEN keep("ok")
      ELSE IF fc.args = Undefined THEN keep("error")
      ELSE IF ~Truthy(fc.args.text) THEN keep("ok")
      ELSE IF fc.args.text.kind # "string" THEN keep("error")
      ELSE IF TextIsEmpty(fc.args.text) THEN keep("ok")
      ELSE IF fc.args.speaker = Undefined
        THEN answer(appended, st.latestAnalysis, "ok")
      ELSE IF fc.args.speaker.kind # "string"
        THEN answer(appended, st.latestAnalysis, "error")
      ELSE IF IsCustomer(fc.args.speaker)
        THEN answer(appended, NewAnalysis(fc.args), "ok")
      ELSE answer(appended, st.latestAnalysis, "ok")

\* functionCalls.map(...): the callback run on each call in order.
RECURSIVE MapCalls(_, _)
MapCalls(calls, st) ==
  IF calls = << >> THEN st
  ELSE MapCalls(Tail(calls), MapCall(Head(calls), st))

\* The args of a logTurn call with these three fields and no other.
Args(text, speaker, sentiment) ==
  [kind |-> "object", text |-> text, speaker |-> speaker,
   sentiment |-> sentiment, emotion |-> Undefined, intent |-> Undefined,
   entities |-> Undefined, suggestedQuestions |-> Undefined,
   objectionHandling |-> Undefined, productRecommendations |-> Undefined]

FunctionCall(id, name, args) == [id |-> id, name |-> name, args |-> args]

Customer == Str(<< "C", "u", "s", "t", "o", "m", "e", "r" >>)

Good == Str(<< "G", "o", "o", "d" >>)

\* The function calls the service sends: a customer turn, a turn that trims
\* to one character, a turn without speaker, a call of another tool, a
\* logTurn without args, a turn without text, a customer in capitals with
\* padded text, a speaker and a text that are numbers, a sales rep turn.
CustomerTurn == FunctionCall("a", "logTurn", Args(Str(<< "h", "i" >>), Customer, Good))

BlankTurn == FunctionCall("b", "logTurn", Args(Str(<< " ", "a", " " >>), Customer, Good))

NoSpeakerTurn == FunctionCall("c", "logTurn", Args(Str(<< "o", "k" >>), Undefined, Undefined))

OtherTool == FunctionCall("d", "search", Undefined)

NoArgsTurn == FunctionCall("e", "logTurn", Undefined)

NoTextTurn == FunctionCall("f", "logTurn", Args(Undefined, Customer, Good))

CapitalsTurn ==
  FunctionCall("g", "logTurn",
               Args(Str(<< " ", "n", "o" >>),
                    Str(<< "T", "H", "E", " ", "C", "U", "S", "T", "O", "M", "E", "R" >>),
                    Undefined))

NumberSpeakerTurn == FunctionCall("h", "logTurn", Args(Str(<< "s", "o" >>), Num(7), Good))

SalesRepTurn ==
  FunctionCall("i", "logTurn", Args(Str(<< "y", "e", "s" >>), SalesRep, Undefined))

NumberTextTurn == FunctionCall("j", "logTurn", Args(Num(42), Customer, Good))

\* A LiveServerMessage: its toolCall, its serverContent.inputTranscription
\* text and its serverContent.turnComplete.
Message(toolCall, text, turnComplete) ==
  [toolCall |-> toolCall, inputTranscription |-> text,
   turnComplete |-> turnComplete]

ToolCall(calls) == [kind |-> "object", functionCalls |-> calls]

\* A toolCall with the function calls given.
Calls(calls) == ToolCall(Arr(calls))

Messages ==
  { Message(Calls(<< CustomerTurn, SalesRepTurn >>), Str(<< "h", "e", "y" >>), FALSE),
    Message(Calls(<< BlankTurn, NoSpeakerTurn, OtherTool, NoArgsTurn >>),
            Undefined, FALSE),
    Message(Calls(<< NoTextTurn, CapitalsTurn, NumberSpeakerTurn,
                     NumberTextTurn >>), Undefined, FALSE),
    Message(Calls(<< >>), Undefined, TRUE),
    Message(ToolCall(Undefined), Str(<< "y", "o" >>), FALSE),
    Message(Undefined, Str(<< "y", "o" >>), FALSE) }

\* The service calls onmessage of call k with msg.  functionCalls.map on
\* a toolCall without functionCalls throws and ends the handler.
OnMessage(k, msg) ==
  /\ conn[k] \in {"open", "closing"}
  /\ Len(handled) < MaxMessages
  /\ handled' = Append(handled, [call |-> k, msg |-> msg,
                                 pending |-> promise[k] = "pending"])
  /\ IF msg.toolCall # Undefined /\ msg.toolCall.functionCalls = Undefined
     THEN UNCHANGED << transcripts, latestAnalysis, currentText,
                       currentInputTransRef, toolResponses, reactions >>
     ELSE LET st == IF msg.toolCall = Undefined
                    THEN [transcripts |-> transcripts,
                          latestAnalysis |-> latestAnalysis,
                          responses |-> << >>]
                    ELSE MapCalls(msg.toolCall.functionCalls.items,
                                  [transcripts |-> transcripts,
                                   latestAnalysis |-> latestAnalysis,
                                   responses |-> << >>])
              caption == IF msg.inputTranscription # Undefined
                         THEN currentInputTransRef \o msg.inputTranscription.chars
                         ELSE currentInputTransRef
          IN  /\ transcripts' = st.transcripts
              /\ latestAnalysis' = st.latestAnalysis
              /\ IF Len(st.responses) > 0 /\ promise[k] = "resolved"
                 THEN toolResponses' = [toolResponses EXCEPT
                                          ![k] = Append(@, st.responses)]
                 ELSE UNCHANGED toolResponses
              /\ IF Len(st.responses) > 0 /\ promise[k] = "pending"
                 THEN reactions' = [reactions EXCEPT
                                      ![k] = Append(@, ToolReaction(st.responses))]
                 ELSE UNCHANGED reactions
              /\ currentInputTransRef' = IF msg.turnComplete THEN << >> ELSE caption
              /\ currentText' =
                   IF msg.turnComplete THEN << >>
                   ELSE IF msg.inputTranscription # Undefined THEN caption
                   ELSE currentText
  /\ NoCleanupAudio
  /\ Ran("onmessage")
  /\ UNCHANGED << status, errorMsg, mounted, refVars, sessionRef, starts,
                  startPc, promise, conn, onopenPc, nodeCtx, sent, blocks,
                  deviceVars, stopped, utilVars, keyVars >>

NextLive ==
  \/ \E processKey, viteKey \in KeyValues :
       StartSession(GetApiKey(processKey, viteKey))
  \/ \E k \in Starts : MicrophoneGranted(k)
  \/ \E k \in Starts : MicrophoneDenied(k)
  \/ \E k \in Starts, suspended \in BOOLEAN : OnOpen(k, suspended)
  \/ \E k \in Starts : OnOpenResumed(k)
  \/ \E k \in Starts : SessionResolved(k)
  \/ \E k \in Starts : SessionRejected(k)
  \/ \E k \in Starts : OnAudioProcess(k)
  \/ \E k \in Starts : OnError(k)
  \/ \E k \in Starts : OnClose(k)
  \/ StopSession
  \/ Unmount

Spec == InitLive /\ [][NextLive]_vars

\* The component with the service sending messages: a session is started,
\* opens with a running context, receives messages, is stopped or closed.
NextMessages ==
  \/ \E processKey, viteKey \in KeyValues :
       StartSession(GetApiKey(processKey, viteKey))
  \/ \E k \in Starts : MicrophoneGranted(k)
  \/ \E k \in Starts : OnOpen(k, FALSE)
  \/ \E k \in Starts : SessionResolved(k)
  \/ \E k \in Starts, msg \in Messages : OnMessage(k, msg)
  \/ \E k \in Starts : OnClose(k)
  \/ StopSession

SpecMessages == InitLive /\ [][NextMessages]_vars

\* ================================================================ claims
\* m is n/d (d > 0) rounded to the nearest integer, halves upwards:
\* m - 1/2 <= n/d < m + 1/2.
IsRoundHalfUp(m, n, d) == 2 * d * m - d <= 2 * n /\ 2 * n < 2 * d * m + d

\* q is n/d (d > 0) truncated towards zero.
IsTruncation(q, n, d) ==
  IF n >= 0 THEN q >= 0 /\ q * d <= n /\ n < (q + 1) * d
            ELSE q <= 0 /\ (q - 1) * d < n /\ n <= q * d

\* downsampleBuffer has returned to createPcmBlob.
Downsampled == pc \in {"quantize", "return", "encoded", "decoded"}

\* C1: whenever the rates differ, downsampleBuffer returns a sequence of
\* exactly round(len(x) / (inputRate / outputRate)) samples, halves rounded up.
C1_LengthLaw ==
  (Downsampled /\ inputSampleRate # outputSampleRate) =>
    IsRoundHalfUp(Len(downsampledData), Len(buffer) * outputSampleRate,
                  inputSampleRate)

\* A block of 7 samples at 44100 Hz (ratio 2.75625) has become 3 samples.
C1_Witness ==
  /\ pc = "quantize"
  /\ inputSampleRate = 44100
  /\ Len(buffer) = 7
  /\ Len(downsampledData) = 3

\* C2: a block whose samples all equal c is resampled to samples that all
\* equal c, for every rate downsampleBuffer accepts.
C2_ConstantInputGivesConstantOutput ==
  (Downsampled /\ \A i \in 1..Len(buffer) : buffer[i] = buffer[1]) =>
    \A j \in 1..Len(downsampledData) : downsampledData[j] = buffer[1]

\* The 8000 Hz block << c >> has become << c, 0 >>: the second window is empty.
C2_Witness ==
  /\ pc = "quantize"
  /\ inputSampleRate = 8000
  /\ buffer = << Rat(SampleDen - 1, SampleDen) >>
  /\ downsampledData = << Rat(SampleDen - 1, SampleDen), Zero >>

\* Input index i (0-based) was read for some output index.
Covered(i) == \E j \in 1..Len(windows) : windows[j].lo <= i /\ i < windows[j].hi

\* The input indices no window holds.
Dropped == { i \in 0..(Len(buffer) - 1) : ~Covered(i) }

\* The loop of downsampleBuffer has ended and its result is returned.
LoopDone == Downsampled /\ inputSampleRate # outputSampleRate

\* C3 as stated: every input index lies in the window of some output index.
C3_EveryIndexCovered == LoopDone => Dropped = {}

\* C3 as amended: the windows cover every input index below
\* round(newLength * ratio); the indices from there on, fewer than
\* (ratio + 1) / 2 of them and none when inputRate < outputRate, are dropped.
C3_CoveredUpToLastWindowEnd ==
  LoopDone =>
    /\ \A i \in 0..(Len(buffer) - 1) :
         (\E m \in 0..(i + 1) :
            /\ IsRoundHalfUp(m, Len(downsampledData) * inputSampleRate,
                             outputSampleRate)
            /\ i >= m)
         <=> i \in Dropped
    /\ 2 * outputSampleRate * Cardinality(Dropped)
         < inputSampleRate + outputSampleRate

\* A block of 4 samples at 44100 Hz: one window, 0..2, and index 3 is dropped.
C3_Witness ==
  /\ pc = "quantize"
  /\ inputSampleRate = 44100
  /\ Len(buffer) = 4
  /\ Len(windows) = 1
  /\ Dropped = {3}

\* C4: the window of output index j starts where the window of j-1 ended
\* (at 0 for the first), ends at round((j+1) * ratio) clamped to the input
\* length, and no input index is in two windows.
C4_WindowsContiguousDisjoint ==
  \A j \in 1..Len(windows) :
    /\ windows[j].lo = (IF j = 1 THEN 0 ELSE windows[j - 1].hi)
    /\ windows[j].hi <= Len(buffer)
    /\ windows[j].hi < Len(buffer) =>
         IsRoundHalfUp(windows[j].hi, j * inputSampleRate, outputSampleRate)
    /\ windows[j].hi = Len(buffer) =>
         2 * j * inputSampleRate >=
           2 * outputSampleRate * Len(buffer) - outputSampleRate
    /\ \A k \in 1..Len(windows) :
         k # j =>
           \A i \in 0..(Len(buffer) - 1) :
             ~(/\ windows[j].lo <= i /\ i < windows[j].hi
               /\ windows[k].lo <= i /\ i < windows[k].hi)

\* A block of 12 samples at 44100 Hz: windows 0..2, 3..5, 6..7, 8..10.
C4_Witness ==
  /\ pc = "quantize"
  /\ inputSampleRate = 44100
  /\ Len(buffer) = 12
  /\ windows = << [lo |-> 0, hi |-> 3], [lo |-> 3, hi |-> 6],
                  [lo |-> 6, hi |-> 8], [lo |-> 8, hi |-> 11] >>

\* round(n/d) for n >= 0 and d > 0, halves upwards, by its defining inequality.
RoundHalfUp(n, d) == CHOOSE m \in 0..(n \div d + 1) : IsRoundHalfUp(m, n, d)

\* The window of output index j (1-based) as the claims describe it: from
\* the end of the window before it to round(j * ratio), clamped to the length.
ClaimedHi(j) ==
  LET e == RoundHalfUp(j * inputSampleRate, outputSampleRate)
  IN  IF e < Len(buffer) THEN e ELSE Len(buffer)

ClaimedLo(j) == IF j = 1 THEN 0 ELSE ClaimedHi(j - 1)

\* count * v is the sum of the samples buffer[lo], ..., buffer[hi - 1].
RECURSIVE SumFrom(_, _)
SumFrom(lo, hi) ==
  IF lo >= hi THEN Zero ELSE RatAdd(buffer[lo + 1], SumFrom(lo + 1, hi))

IsMeanOf(v, lo, hi) == Rat(v.n * (hi - lo), v.d) = SumFrom(lo, hi)

\* C5 as stated: output[j] is the mean of its window, and is 0 exactly when
\* the window holds no input index.
C5_MeanAndZeroOnlyIfEmpty ==
  \A j \in 1..offsetResult :
    LET lo == ClaimedLo(j)
        hi == ClaimedHi(j)
    IN  /\ lo < hi => IsMeanOf(result[j], lo, hi)
        /\ result[j] = Zero <=> ~(lo < hi)

\* C5 as amended: output[j] is the mean of its window when the window holds
\* an input index and 0 when it holds none (a window of samples that sum
\* to 0 gives 0 as well).
C5_MeanOrZeroIfEmpty ==
  \A j \in 1..offsetResult :
    LET lo == ClaimedLo(j)
        hi == ClaimedHi(j)
    IN  /\ lo < hi => IsMeanOf(result[j], lo, hi)
        /\ ~(lo < hi) => result[j] = Zero

\* A 44100 Hz block of 4 samples: the only output is the mean of the first
\* three, (-1 + 0 + 0.9) / 3.
C5_Witness ==
  /\ pc = "quantize"
  /\ inputSampleRate = 44100
  /\ buffer = << MinusOne, Zero, Rat(SampleDen - 1, SampleDen), Zero >>
  /\ result = << Rat(-1, 3 * SampleDen) >>

\* C6: with equal rates downsampleBuffer returns its input, sample for
\* sample, and createPcmBlob stores one integer per input sample, the
\* integer of that sample.
C6_SameRateIdentity ==
  (inputSampleRate = TARGET_RATE) =>
    /\ Downsampled => downsampledData = buffer
    /\ pc \in {"return", "encoded", "decoded"} =>
         /\ Len(int16) = Len(buffer)
         /\ \A i \in 1..Len(buffer) : int16[i] = FloatToInt16(buffer[i])

\* A 16000 Hz block of three samples has been stored as three integers.
C6_Witness ==
  /\ pc = "return"
  /\ inputSampleRate = TARGET_RATE
  /\ buffer = << Rat(SampleDen - 1, SampleDen), MinusOne, Zero >>
  /\ downsampledData = buffer
  /\ Len(int16) = 3

\* -1 <= s <= 1
InUnitRange(s) == -s.d <= s.n /\ s.n <= s.d

\* |a - s| <= k / 32768 for rationals a and s
WithinSteps(a, s, k) ==
  Abs(a.n * s.d - s.n * a.d) <= (k * a.d * s.d) \div 32768

\* |a - s| < k / 32768 for rationals a and s
WithinLessThanSteps(a, s, k) ==
  Abs(a.n * s.d - s.n * a.d) <= (k * a.d * s.d - 1) \div 32768

\* The payload of createPcmBlob has been decoded to one channel.
RoundTripDone == pc = "decoded" /\ decoded.threw = None

\* C7 as stated: a sample s in [-1, 1], quantized by the encoder and
\* divided by 32768 by the decoder, comes back within 1/32768 of s.
C7_RoundTripWithinOneStep ==
  RoundTripDone =>
    \A i \in 1..Len(downsampledData) :
      InUnitRange(downsampledData[i]) =>
        WithinSteps(decoded.channels[1][i], downsampledData[i], 1)

\* C7 as amended: the sample comes back less than 2/32768 from s, and
\* within 1/32768 when s <= 0.
C7_RoundTripWithinTwoSteps ==
  RoundTripDone =>
    \A i \in 1..Len(downsampledData) :
      InUnitRange(downsampledData[i]) =>
        /\ WithinLessThanSteps(decoded.channels[1][i], downsampledData[i], 2)
        /\ downsampledData[i].n <= 0 =>
             WithinSteps(decoded.channels[1][i], downsampledData[i], 1)

\* The sample (SampleDen - 1) / SampleDen has gone through the encoder and
\* the decoder and has come back more than 1/32768 away.
C7_Witness ==
  /\ RoundTripDone
  /\ inputSampleRate = TARGET_RATE
  /\ buffer = << Rat(SampleDen - 1, SampleDen) >>
  /\ ~WithinSteps(decoded.channels[1][1], buffer[1], 1)
  /\ WithinLessThanSteps(decoded.channels[1][1], buffer[1], 2)

\* The sample s as clamped to [-1, 1]
Clamped(s) == IF s.n > s.d THEN One ELSE IF s.n < -s.d THEN MinusOne ELSE s

\* createPcmBlob has filled int16.
Quantized == pc \in {"return", "encoded", "decoded"}

\* C8: the integer stored for a sample s, after clamping, is s * 32768
\* truncated towards zero when s < 0 and s * 32767 truncated towards zero
\* otherwise; 1.0 gives 32767, -1.0 gives -32768, 0.0 gives 0, and every
\* stored integer is in [-32768, 32767].
C8_AsymmetricTruncation ==
  Quantized =>
    \A i \in 1..Len(downsampledData) :
      LET s == Clamped(downsampledData[i])
      IN  /\ IsTruncation(int16[i],
                          s.n * (IF s.n < 0 THEN 32768 ELSE 32767), s.d)
          /\ -32768 <= int16[i] /\ int16[i] <= 32767
          /\ s = One => int16[i] = 32767
          /\ s = MinusOne => int16[i] = -32768
          /\ s = Zero => int16[i] = 0

\* The samples 1.0, -1.0 and 0.0 of a 16000 Hz block are stored as
\* 32767, -32768 and 0.
C8_Witness ==
  /\ pc = "return"
  /\ inputSampleRate = TARGET_RATE
  /\ downsampledData = << One, MinusOne, Zero >>
  /\ int16 = << 32767, -32768, 0 >>

\* C9: a sample above 1 is stored as 32767, the integer of 1.0, and a
\* sample below -1 as -32768, the integer of -1.0.
C9_ClampedNotWrapped ==
  Quantized =>
    \A i \in 1..Len(downsampledData) :
      /\ RatLess(One, downsampledData[i]) => int16[i] = 32767
      /\ RatLess(downsampledData[i], MinusOne) => int16[i] = -32768

\* The sample 1.5 has been stored as 32767.
C9_Witness ==
  /\ pc = "return"
  /\ downsampledData = << Rat(3, 2) >>
  /\ int16 = << 32767 >>

\* C10: base64ToUint8Array(arrayBufferToBase64(b)) is b, byte for byte.
C10_Base64RoundTrip == pc = "done" => bytesOut = bytesIn

\* Four bytes, zero and 255 among them, have made the round trip.
C10_Witness ==
  /\ pc = "done"
  /\ bytesIn = << 0, 255, 77, 0 >>
  /\ bytesOut = bytesIn
  /\ Len(base64) = 8

\* The k-th (1-based) 16-bit integer of the byte sequence b, low byte first.
SignedAt(b, k) ==
  LET u == b[2 * k - 1] + 256 * b[2 * k]
  IN  IF u >= 32768 THEN u - 65536 ELSE u

\* The number of whole 16-bit integers in data.
SampleCount == Len(data) \div 2

\* C11 as stated: for every sample count n and channel count k the buffer
\* has floor(n / k) frames in each channel, and no error is raised.
C11_FloorFramesNoError ==
  (pc = "decodeReturned" /\ Len(data) % 2 = 0) =>
    /\ decoded.threw = None
    /\ Len(decoded.channels) = numChannels
    /\ \A c \in 1..Len(decoded.channels) :
         Len(decoded.channels[c]) = SampleCount \div numChannels

\* C11 as amended: when there are at least as many samples as channels
\* (n >= k) the buffer has floor(n / k) frames in each channel and no error
\* is raised, whether or not k divides n; when n < k the frame count is 0,
\* ctx.createBuffer rejects it and the call fails with NotSupportedError.
C11_FloorFramesWhenOneFrame ==
  (pc = "decodeReturned" /\ Len(data) % 2 = 0) =>
    IF SampleCount >= numChannels
    THEN /\ decoded.threw = None
         /\ Len(decoded.channels) = numChannels
         /\ \A c \in 1..Len(decoded.channels) :
              Len(decoded.channels[c]) = SampleCount \div numChannels
    ELSE decoded.threw = "NotSupportedError"

\* Three integers and two channels: one frame per channel, the third
\* integer is in neither.
C11_Witness ==
  /\ pc = "decodeReturned"
  /\ data = Int16Bytes(<< -1, 12345, -32768 >>)
  /\ numChannels = 2
  /\ decoded.threw = None
  /\ decoded.channels = << << Rat(-1, 32768) >>, << Rat(12345, 32768) >> >>

\* C12: channel c, frame i of the buffer is integer i * numChannels + c of
\* the bytes, divided by 32768.
C12_Deinterleave ==
  (pc = "decodeReturned" /\ decoded.threw = None) =>
    /\ Len(decoded.channels) = numChannels
    /\ \A c \in 1..numChannels :
         /\ Len(decoded.channels[c]) = SampleCount \div numChannels
         /\ \A i \in 1..(SampleCount \div numChannels) :
              LET v == decoded.channels[c][i]
                  k == SignedAt(data, (i - 1) * numChannels + c)
              IN  v.n * 32768 = k * v.d

\* Six integers and two channels: channel 0 has integers 0, 2, 4 and
\* channel 1 has integers 1, 3, 5.
C12_Witness ==
  /\ pc = "decodeReturned"
  /\ numChannels = 2
  /\ data = Int16Bytes(<< -32768, -1, 12345, -32768, -1, 12345 >>)
  /\ decoded.channels =
       << << Rat(-32768, 32768), Rat(12345, 32768), Rat(-1, 32768) >>,
          << Rat(-1, 32768), Rat(-32768, 32768), Rat(12345, 32768) >> >>

\* C13: decodeAudioData fails only where ctx.createBuffer fails; any
\* byte sequence, one of odd length too, otherwise gives a buffer.
C13_FailsOnlyInCreateBuffer ==
  pc = "decodeReturned" => decoded.threw \in {None, "NotSupportedError"}

\* Three bytes: the Int16Array view throws before ctx.createBuffer is called.
C13_Witness ==
  /\ pc = "decodeReturned"
  /\ data = << 255, 255, 77 >>
  /\ numChannels = 1
  /\ decoded.threw = "RangeError"

\* createPcmBlob has returned its payload.
Encoded == pc \in {"encoded", "decoded"}

\* C18: the payload's mimeType is "audio/pcm;rate=16000" and its data is
\* the base64 text of exactly 2 * round(len * 16000 / inputSampleRate) bytes,
\* the low and then the high byte of each resampled sample's integer, in order.
C18_PayloadFraming ==
  Encoded =>
    LET b == Base64ToUint8Array(blob.data)
    IN  /\ blob.mimeType = << "audio/pcm;rate=", 16000 >>
        /\ Len(b) % 2 = 0
        /\ IsRoundHalfUp(Len(b) \div 2, Len(buffer) * 16000, inputSampleRate)
        /\ Len(b) = 2 * Len(downsampledData)
        /\ \A i \in 1..Len(downsampledData) :
             LET u == FloatToInt16(downsampledData[i]) % 65536
             IN  b[2 * i - 1] = u % 256 /\ b[2 * i] = u \div 256

\* The 32000 Hz block << 1, 1, -1, -1 >> has become the samples 1 and -1,
\* sent as the bytes FF 7F 00 80.
C18_Witness ==
  /\ pc = "encoded"
  /\ inputSampleRate = 32000
  /\ buffer = << One, One, MinusOne, MinusOne >>
  /\ Base64ToUint8Array(blob.data) = << 255, 127, 0, 128 >>

\* C19 as stated: for every block and rate the payload's bytes decode, at
\* one channel, to a buffer as long as the resampled block.
C19_DecodedLengthIsResampledLength ==
  pc = "decoded" =>
    /\ decoded.threw = None
    /\ Len(decoded.channels) = 1
    /\ Len(decoded.channels[1]) = Len(downsampledData)

\* C19 as amended: when the resampled block has at least one sample the
\* decoded buffer has one channel of that length; when it has none,
\* ctx.createBuffer rejects the frame count 0 and no buffer is produced.
C19_DecodedLengthWhenNotEmpty ==
  pc = "decoded" =>
    IF Len(downsampledData) >= 1
    THEN /\ decoded.threw = None
         /\ Len(decoded.channels) = 1
         /\ Len(decoded.channels[1]) = Len(downsampledData)
    ELSE decoded.threw = "NotSupportedError"

\* A 48000 Hz block of 12 samples is resampled to 4 and decoded to 4 frames.
C19_Witness ==
  /\ pc = "decoded"
  /\ inputSampleRate = 48000
  /\ Len(buffer) = 12
  /\ Len(downsampledData) = 4
  /\ decoded.threw = None
  /\ Len(decoded.channels[1]) = 4

\* A release is the stop of a microphone track, the close of a context,
\* the stop of a playback source.
IsTrackStop(e) == e.act = "stop" /\ e.kind = "track"

IsContextClose(e) == e.act = "close"

IsPlaybackStop(e) == e.act = "stop" /\ e.kind = "playback"

\* C14: whichever handler stops the session, cleanupAudio first stops the
\* playback sources, then closes the two contexts, then stops the microphone
\* tracks: no track is stopped before a context is closed and no context is
\* closed before a playback source is stopped.
C14_StopOrdering ==
  released # None =>
    \A i, j \in 1..Len(released) :
      /\ (IsContextClose(released[i]) /\ IsTrackStop(released[j])) => i < j
      /\ (IsPlaybackStop(released[i]) /\ IsContextClose(released[j])) => i < j

\* A connection failure after the microphone was granted: cleanupAudio has
\* stopped the track first and closed the two contexts after it.
C14_Witness ==
  /\ lastOp = "connectFailed"
  /\ released = << Release("stop", "track", 1), Release("close", "input", 1),
                   Release("close", "output", 1) >>

\* Every reference cleanupAudio releases is null, no playback source active.
AllRefsNull ==
  /\ inputContextRef = 0
  /\ outputContextRef = 0
  /\ streamRef = 0
  /\ processorRef = 0
  /\ sourceRef = 0
  /\ audioSourcesRef = {}

\* C15: a cleanupAudio that runs when every reference is already null, or
\* right after another cleanupAudio, releases nothing (no track stopped, no
\* context closed, no node disconnected, the devices untouched), and every
\* cleanupAudio leaves all references null and the source set empty.
C15_IdempotentStop ==
  [][ /\ released' # None => AllRefsNull'
      /\ (released' # None /\ (AllRefsNull \/ released # None)) =>
           (released' = << >> /\ UNCHANGED deviceVars) ]_vars

\* The component unmounts right after a handler whose cleanupAudio released
\* something: the stopSession of the unmount releases nothing.
C15_Witness ==
  /\ lastOp = "unmount"
  /\ releasedPrev # None
  /\ releasedPrev # << >>
  /\ released = << >>
  /\ AllRefsNull

\* Block b waits in the callbacks of sessionPromise of call k.
Queued(b, k) == \E i \in 1..Len(reactions[k]) : reactions[k][i] = SendReaction(b)

\* Block b was passed to session.sendRealtimeInput of call k.
Sent(b, k) == \E i \in 1..Len(sent[k]) : sent[k][i] = b

\* C16: a block captured while sessionPromise is pending is dropped: it is
\* neither queued nor ever passed to sendRealtimeInput.
C16_PendingBlockDropped ==
  \A b \in 1..Len(blocks) :
    blocks[b].pending => \A k \in Starts : ~Queued(b, k) /\ ~Sent(b, k)

\* C16: a block captured while sessionPromise is pending waits on the
\* promise and is not yet sent; once the promise has resolved it has been
\* passed to sendRealtimeInput, before every block captured after resolution.
C16_PendingBlockSentOnResolve ==
  \A b \in 1..Len(blocks) :
    LET k == blocks[b].call
    IN  blocks[b].pending =>
          /\ promise[k] = "pending" => (Queued(b, k) /\ ~Sent(b, k))
          /\ promise[k] = "resolved" =>
               \E i \in 1..Len(sent[k]) :
                 /\ sent[k][i] = b
                 /\ \A j \in 1..Len(sent[k]) :
                      ~blocks[sent[k][j]].pending => i < j
          /\ promise[k] \in {"pending", "resolved"}

\* One block captured before the promise resolved and one after: both sent.
C16_Witness ==
  /\ blocks = << [call |-> 1, pending |-> TRUE], [call |-> 1, pending |-> FALSE] >>
  /\ sent[1] = << 1, 2 >>

\* C17: for each session the blocks passed to sendRealtimeInput are blocks
\* its own processor captured, in capture order, each at most once.
C17_FifoOncePerBlock ==
  \A k \in Starts :
    /\ \A i \in 1..Len(sent[k]) :
         sent[k][i] \in 1..Len(blocks) /\ blocks[sent[k][i]].call = k
    /\ \A i, j \in 1..Len(sent[k]) : i < j => sent[k][i] < sent[k][j]

\* Two blocks captured while the promise was pending, sent when it resolved.
C17_Witness ==
  /\ blocks = << [call |-> 1, pending |-> TRUE], [call |-> 1, pending |-> TRUE] >>
  /\ promise[1] = "resolved"
  /\ sent[1] = << 1, 2 >>

\* No callback of any startSession call is still to run: no getUserMedia
\* or resume() awaited, no promise pending, no connection opening or closing.
Quiescent ==
  \A k \in Starts :
    /\ startPc[k] # "getUserMedia"
    /\ promise[k] # "pending"
    /\ reactions[k] = << >>
    /\ onopenPc[k] # "resume"
    /\ conn[k] \notin {"opening", "closing", "failed"}

\* C20: when stopSession has run after the last startSession and no callback
\* of that start is still to run, no stream, context or node is held (every
\* reference null, no track live, no context open, no node connected), so
\* that no processor can capture and send another block.
C20_NothingSurvivesStop ==
  (stopped /\ Quiescent) =>
    /\ AllRefsNull
    /\ liveTracks = {}
    /\ openContexts = {}
    /\ connectedNodes = {}

\* The component unmounted while getUserMedia was awaited: the stream that
\* arrived afterwards is still held with its track live.
C20_Witness ==
  /\ ~mounted
  /\ stopped
  /\ Quiescent
  /\ streamRef = 1
  /\ liveTracks = {1}
  /\ sessionRef = 1
  /\ conn[1] = "open"

\* C21: when inputRate > outputRate every window of downsampleBuffer holds
\* at least one input index, so no output sample comes from the empty-window
\* fallback: each is the mean of the input samples of its window, and there
\* are round(len / ratio) windows when the loop has ended.
C21_WindowsNonEmptyWhenDownsampling ==
  (pc # "createPcmBlob" /\ inputSampleRate > TARGET_RATE) =>
    /\ \A j \in 1..Len(windows) :
         /\ windows[j].lo < windows[j].hi
         /\ windows[j].hi <= Len(buffer)
         /\ IsMeanOf(IF Downsampled THEN downsampledData[j] ELSE result[j],
                     windows[j].lo, windows[j].hi)
    /\ Downsampled =>
         IsRoundHalfUp(Len(windows), Len(buffer) * TARGET_RATE, inputSampleRate)

\* A block of 12 samples at 48000 Hz: four windows of three indices each.
C21_Witness ==
  /\ pc = "quantize"
  /\ inputSampleRate = 48000
  /\ windows = << [lo |-> 0, hi |-> 3], [lo |-> 3, hi |-> 6],
                  [lo |-> 6, hi |-> 9], [lo |-> 9, hi |-> 12] >>
  /\ Len(downsampledData) = 4

\* The function calls of a message: none when it carries no toolCall or
\* no list.
CallsOf(msg) ==
  IF msg.toolCall = Undefined THEN << >>
  ELSE IF msg.toolCall.functionCalls = Undefined THEN << >>
  ELSE msg.toolCall.functionCalls.items

\* The handled messages of call k that carry at least one function call.
ToolMessages(k) ==
  LET carries(h) == h.call = k /\ CallsOf(h.msg) # << >>
  IN  SelectSeq(handled, carries)

\* A functionResponses list answers a list of calls: same length, and the
\* entry at each position carries the id and the name of the call there.
Answers(responses, calls) ==
  /\ Len(responses) = Len(calls)
  /\ \A i \in 1..Len(calls) :
       responses[i].id = calls[i].id /\ responses[i].name = calls[i].name

\* C22: each message with a non-empty list of function calls gets exactly
\* one sendToolResponse, whose list answers the calls one by one in order,
\* whatever the tool, the text and the outcome of the argument handling:
\* at once when sessionPromise is resolved, and on its resolution (one
\* waiting callback per message until then) when it is pending.
C22_ToolCallAcknowledged ==
  \A k \in Starts :
    LET issued == IF promise[k] = "pending"
                  THEN RunToolReactions(reactions[k])
                  ELSE toolResponses[k]
    IN  /\ promise[k] = "pending" => toolResponses[k] = << >>
        /\ Len(issued) = Len(ToolMessages(k))
        /\ \A i \in 1..Len(issued) :
             Answers(issued[i], CallsOf(ToolMessages(k)[i].msg))

\* One message with a filtered turn, a kept turn, another tool and a
\* logTurn that throws: one response list of four entries, the last "error".
C22_Witness ==
  /\ Len(handled) = 1
  /\ toolResponses[1] =
       << << [id |-> "b", name |-> "logTurn", response |-> [result |-> "ok"]],
             [id |-> "c", name |-> "logTurn", response |-> [result |-> "ok"]],
             [id |-> "d", name |-> "search", response |-> [result |-> "ok"]],
             [id |-> "e", name |-> "logTurn", response |-> [result |-> "error"]] >> >>

\* The characters of a string from its first to its last non-blank one.
TrimmedLength(chars) ==
  LET inked == { i \in 1..Len(chars) : chars[i] # " " }
  IN  IF inked = {} THEN 0
      ELSE (CHOOSE i \in inked : \A j \in inked : j <= i)
           - (CHOOSE i \in inked : \A j \in inked : i <= j) + 1

\* A logTurn call whose text is a string of 2 or more characters once
\* trimmed.
PassesFilter(fc) ==
  /\ fc.name = "logTurn"
  /\ fc.args # Undefined
  /\ fc.args.text.kind = "string"
  /\ TrimmedLength(fc.args.text.chars) >= 2

\* The ids of the calls of a list that pass the filter, in order.
RECURSIVE PassingIds(_)
PassingIds(calls) ==
  IF calls = << >> THEN << >>
  ELSE (IF PassesFilter(Head(calls)) THEN << Head(calls).id >> ELSE << >>)
       \o PassingIds(Tail(calls))

\* C23: onmessage appends to the transcript list exactly one item for each
\* logTurn call whose trimmed text has 2 characters or more, with the id
\* and the text of the call, and none for any other call; a message none
\* of whose calls passes leaves the latest analysis unchanged; outside
\* startSession the list only grows at its end, and stopSession leaves it.
C23_EmptyTurnFilter ==
  [][ /\ lastOp' = "onmessage" =>
           LET calls == CallsOf(handled'[Len(handled')].msg)
               ids == PassingIds(calls)
           IN  /\ Len(transcripts') = Len(transcripts) + Len(ids)
               /\ SubSeq(transcripts', 1, Len(transcripts)) = transcripts
               /\ \A i \in 1..Len(ids) :
                    LET item == transcripts'[Len(transcripts) + i]
                    IN  /\ item.id = ids[i]
                        /\ \E c \in 1..Len(calls) :
                             /\ calls[c].id = item.id
                             /\ item.text = calls[c].args.text
               /\ ids = << >> => latestAnalysis' = latestAnalysis
      /\ lastOp' # "startSession" =>
           /\ Len(transcripts') >= Len(transcripts)
           /\ SubSeq(transcripts', 1, Len(transcripts)) = transcripts
      /\ lastOp' \in {"stopSession", "unmount"} => transcripts' = transcripts
    ]_vars

\* After the message with a turn that trims to one character and a turn
\* "ok", the Stop button: the list holds the one kept turn.
C23_Witness ==
  /\ lastOp = "stopSession"
  /\ Len(handled) = 1
  /\ Len(CallsOf(handled[1].msg)) = 4
  /\ transcripts = << [id |-> "c", speaker |-> SalesRep,
                       text |-> Str(<< "o", "k" >>)] >>

\* The speaker of a call is a string that holds "customer" in any case.
SaysCustomer(fc) ==
  /\ fc.args.speaker.kind = "string"
  /\ LET sp == fc.args.speaker.chars
     IN  \E i \in 0..(Len(sp) - 8) :
           /\ sp[i + 1] \in {"c", "C"}
           /\ sp[i + 2] \in {"u", "U"}
           /\ sp[i + 3] \in {"s", "S"}
           /\ sp[i + 4] \in {"t", "T"}
           /\ sp[i + 5] \in {"o", "O"}
           /\ sp[i + 6] \in {"m", "M"}
           /\ sp[i + 7] \in {"e", "E"}
           /\ sp[i + 8] \in {"r", "R"}

\* The positions in a list of the calls that pass the filter and whose
\* speaker is the customer.
CustomerCalls(calls) ==
  { c \in 1..Len(calls) : PassesFilter(calls[c]) /\ SaysCustomer(calls[c]) }

\* C24: onmessage replaces the latest analysis exactly when the message
\* holds a logTurn call that passed the empty-turn filter and whose speaker
\* holds "customer" in any case, by the analysis of the last such call; a
\* passing turn of any other speaker is appended to the transcript, under
\* "Sales Rep" when it names no speaker, and leaves the analysis; no other
\* handler sets an analysis (stopSession resets it to undefined).
C24_CustomerOnlyAnalysis ==
  [][ /\ lastOp' = "onmessage" =>
           LET calls == CallsOf(handled'[Len(handled')].msg)
               customers == CustomerCalls(calls)
               appended == SubSeq(transcripts', Len(transcripts) + 1,
                                  Len(transcripts'))
           IN  /\ customers = {} => latestAnalysis' = latestAnalysis
               /\ customers # {} =>
                    LET last == CHOOSE c \in customers :
                                  \A d \in customers : d <= c
                    IN  /\ latestAnalysis' # Undefined
                        /\ latestAnalysis'.sentiment =
                             (IF calls[last].args.sentiment = Undefined
                              THEN Str(<< "N", "e", "u", "t", "r", "a", "l" >>)
                              ELSE calls[last].args.sentiment)
               /\ \A c \in 1..Len(calls) :
                    (PassesFilter(calls[c]) /\ c \notin customers) =>
                      \E i \in 1..Len(appended) :
                        /\ appended[i].id = calls[c].id
                        /\ appended[i].speaker =
                             (IF calls[c].args.speaker = Undefined
                              THEN SalesRep ELSE calls[c].args.speaker)
      /\ lastOp' # "onmessage" =>
           (latestAnalysis' = latestAnalysis \/ latestAnalysis' = Undefined)
    ]_vars

\* A customer turn and then a sales rep turn in one message: both are in
\* the transcript and the analysis is the customer's.
C24_Witness ==
  /\ lastOp = "onmessage"
  /\ Len(transcripts) = 2
  /\ transcripts[1].speaker = Customer
  /\ transcripts[2].speaker = SalesRep
  /\ latestAnalysis # Undefined
  /\ latestAnalysis.sentiment = Good

\* C25: a startSession for which getApiKey resolves no key ends in the
\* ERROR status with an error message and creates no audio context, asks
\* for no microphone stream and opens no connection; a startSession with a
\* key clears the error message and moves the status to CONNECTING.
C25_MissingCredentials ==
  [][ lastOp' = "startSession" =>
        IF lastApiKey' = << >>
        THEN /\ status' = "ERROR"
             /\ errorMsg' # None
             /\ UNCHANGED << refVars, deviceVars, sessionRef, starts, startPc,
                             promise, conn >>
        ELSE /\ errorMsg' = None
             /\ status' = "CONNECTING"
    ]_vars

\* A first startSession found no key: ERROR, a message, nothing created.
C25_Witness ==
  /\ lastOp = "startSession"
  /\ lastApiKey = << >>
  /\ status = "ERROR"
  /\ errorMsg = "API Key not found"
  /\ starts = 0
  /\ openContexts = {}
  /\ AllRefsNull

=============================================================================
